---------------------------- MODULE Spec2Model ----------------------------
(***************************************************************************)
(* A model of the ordered key/value container of src/bst.h                 *)
(* (BinarySearchTree) and of its self-balancing variant of src/avlbst.h    *)
(* (AVLTree).                                                              *)
(*                                                                         *)
(* The heap is a record of functions over node addresses: key, value,      *)
(* parent, left, right and balance are the fields item_.first,             *)
(* item_.second, parent_, left_, right_ and balance_ of the node at that   *)
(* address, live is the set of allocated addresses, root is root_ and      *)
(* fault tells whether storage that held no node was ever deleted.         *)
(* Every method is an operator from a heap to a heap, written statement by *)
(* statement after the C++; every loop is a recursive operator.            *)
(***************************************************************************)
EXTENDS Integers, Sequences, FiniteSets

\* Keys are drawn from 1..MaxKey where values vary too (Spec), and from
\* 1..MaxKey + 1 where only the shape of the tree matters (SpecShape).
MaxKey == 4

\* nullptr
NULL == 0

Key == 1..MaxKey

WideKey == 1..(MaxKey + 1)

\* The template parameter Value is opaque to the trees (it is only copied),
\* so it is instantiated with a two-element type; NoValue is the content of
\* storage that holds no node.
Value == {"a", "b"}

NoValue == "none"

\* The keys of the worked scenario, in the order they are inserted.
ScenarioKeys == <<5, 3, 8, 1, 4, 7, 9>>

\* Node addresses. One address more than there are keys, so that a tree that
\* wrongly allocated a second node for a key would still find storage, and an
\* address for every key of the scenario.
Addr == 1..(CHOOSE m \in {MaxKey + 2} \cup {ScenarioKeys[i] : i \in DOMAIN ScenarioKeys} :
              \A x \in {MaxKey + 2} \cup {ScenarioKeys[i] : i \in DOMAIN ScenarioKeys} : x <= m)

VARIABLES
    kind,   \* the dynamic type of the tree object: "BST" or "AVL"
    tree,   \* the heap and root_
    last,   \* the call that returned last, and what it saw on entry
    ret,    \* what the last call returned to its caller
    twin    \* a BinarySearchTree of its own, given the same calls as an AVLTree

vars == <<kind, tree, last, ret, twin>>

---------------------------------------------------------------------------
\* Node: setters and constructor

setParent(T, n, p) ==
    [T EXCEPT !.parent[n] = p]

setLeft(T, n, l) ==
    [T EXCEPT !.left[n] = l]

setRight(T, n, r) ==
    [T EXCEPT !.right[n] = r]

\* setValue that stores nothing
setValue_noStore(T, n, v) ==
    T

setValue(T, n, v) ==
    [T EXCEPT !.value[n] = v]

setBalance(T, n, b) ==
    [T EXCEPT !.balance[n] = b]

\* operator new: an address that is not allocated. The trees never order or
\* hash addresses, so which free address is returned cannot be observed; the
\* allocator modelled here hands out address k for key k when it is free and
\* the least free address otherwise.
Alloc(T, k) ==
    IF k \notin T.live THEN k
    ELSE IF Addr \ T.live = {} THEN k
    ELSE CHOOSE a \in Addr \ T.live : \A b \in Addr \ T.live : a <= b

\* new Node(key, value, parent) / new AVLNode(key, value, parent) at address a:
\* left_ and right_ are nullptr, balance_ is 0.
NewNode(T, a, k, v, p) ==
    [T EXCEPT !.live = @ \cup {a},
              !.key[a] = k,
              !.value[a] = v,
              !.parent[a] = p,
              !.left[a] = NULL,
              !.right[a] = NULL,
              !.balance[a] = 0]

\* delete n: the storage is returned; what it held is no longer program state.
\* fault records a delete of storage that holds no node (a double free).
DeleteNode(T, n) ==
    [T EXCEPT !.live = @ \ {n},
              !.fault = @ \/ n \notin T.live,
              !.key[n] = 0,
              !.value[n] = NoValue,
              !.parent[n] = NULL,
              !.left[n] = NULL,
              !.right[n] = NULL,
              !.balance[n] = 0]

\* BinarySearchTree(): root_ = nullptr, nothing allocated.
EmptyTree ==
    [root    |-> NULL,
     live    |-> {},
     key     |-> [a \in Addr |-> 0],
     value   |-> [a \in Addr |-> NoValue],
     parent  |-> [a \in Addr |-> NULL],
     left    |-> [a \in Addr |-> NULL],
     right   |-> [a \in Addr |-> NULL],
     balance |-> [a \in Addr |-> 0],
     fault   |-> FALSE]

---------------------------------------------------------------------------
\* What the properties are stated with: the tree as a mathematical object,
\* read off the child links alone.

\* the nodes of the subtree at n, in in-order
RECURSIVE InOrder(_, _)
InOrder(T, n) ==
    IF n = NULL THEN <<>>
    ELSE InOrder(T, T.left[n]) \o <<n>> \o InOrder(T, T.right[n])

\* the nodes reachable from root_
Nodes(T) ==
    LET s == InOrder(T, T.root) IN {s[i] : i \in 1..Len(s)}

\* the keys, and the (key, value) pairs, in in-order
KeySeq(T) ==
    LET s == InOrder(T, T.root) IN [i \in 1..Len(s) |-> T.key[s[i]]]

PairSeq(T) ==
    LET s == InOrder(T, T.root) IN [i \in 1..Len(s) |-> <<T.key[s[i]], T.value[s[i]]>>]

\* the nodes that hold key k
Holders(T, k) ==
    {n \in Nodes(T) : T.key[n] = k}

\* the subtree at n as a set of nodes
Subtree(T, n) ==
    LET s == InOrder(T, n) IN {s[i] : i \in 1..Len(s)}

\* height with the height of an absent child 0
RECURSIVE Height(_, _)
Height(T, n) ==
    IF n = NULL THEN 0
    ELSE LET a == Height(T, T.left[n])
             b == Height(T, T.right[n])
         IN  1 + (IF a >= b THEN a ELSE b)

\* a sequence of (key, value) pairs without the pairs of key k
RECURSIVE Without(_, _)
Without(s, k) ==
    IF s = <<>> THEN <<>>
    ELSE IF Head(s)[1] = k THEN Without(Tail(s), k)
    ELSE <<Head(s)>> \o Without(Tail(s), k)

StrictlyIncreasing(s) ==
    \A i \in 1..(Len(s) - 1) : s[i] < s[i + 1]

---------------------------------------------------------------------------
\* BinarySearchTree: lookup and navigation

\* findLoop that returns the last node visited when the key is missing
RECURSIVE findLoop_lastVisited(_, _, _)
findLoop_lastVisited(T, current, k) ==
    IF current = NULL THEN NULL
    ELSE IF k < T.key[current]
         THEN (IF T.left[current] = NULL THEN current
               ELSE findLoop_lastVisited(T, T.left[current], k))
    ELSE IF k > T.key[current]
         THEN (IF T.right[current] = NULL THEN current
               ELSE findLoop_lastVisited(T, T.right[current], k))
    ELSE current

RECURSIVE findLoop(_, _, _)
findLoop(T, current, k) ==
    IF current = NULL THEN NULL
    ELSE IF k < T.key[current] THEN findLoop(T, T.left[current], k)
    ELSE IF k > T.key[current] THEN findLoop(T, T.right[current], k)
    ELSE current

internalFind(T, k) ==
    findLoop(T, T.root, k)

\* find(k): the iterator's current_
find(T, k) ==
    internalFind(T, k)

RECURSIVE leftmost(_, _)
leftmost(T, n) ==
    IF T.left[n] # NULL THEN leftmost(T, T.left[n]) ELSE n

\* a descent that stops where it starts
rightmost_stops(T, n) ==
    n

RECURSIVE rightmost(_, _)
rightmost(T, n) ==
    IF T.right[n] # NULL THEN rightmost(T, T.right[n]) ELSE n

getSmallestNode(T) ==
    IF T.root = NULL THEN NULL ELSE leftmost(T, T.root)

\* an ascent that stops at the first parent, whichever side current is on
predAscend_oneLevel(T, current, parent) ==
    parent

\* the ascent of predecessor(): while current is the left child of parent
RECURSIVE predAscend(_, _, _)
predAscend(T, current, parent) ==
    IF parent # NULL /\ current = T.left[parent]
    THEN predAscend(T, parent, T.parent[parent])
    ELSE parent

\* predecessor that takes the left child instead of the rightmost node below it
predecessor_leftChild(T, current) ==
    IF T.left[current] # NULL THEN T.left[current]
    ELSE predAscend(T, current, T.parent[current])

predecessor(T, current) ==
    IF current = NULL THEN NULL
    ELSE IF T.left[current] # NULL THEN rightmost(T, T.left[current])
    ELSE predAscend(T, current, T.parent[current])

\* the ascent of successor(): while current is the right child of parent
RECURSIVE succAscend(_, _, _)
succAscend(T, current, parent) ==
    IF parent # NULL /\ current = T.right[parent]
    THEN succAscend(T, parent, T.parent[parent])
    ELSE parent

\* successor that stops at the right child instead of descending to its leftmost
successor_noDescent(T, current) ==
    IF current = NULL THEN NULL
    ELSE IF T.right[current] # NULL THEN T.right[current]
    ELSE succAscend(T, current, T.parent[current])

successor(T, current) ==
    IF current = NULL THEN NULL
    ELSE IF T.right[current] # NULL THEN leftmost(T, T.right[current])
    ELSE succAscend(T, current, T.parent[current])

\* empty()
empty(T) ==
    T.root = NULL

\* begin(), end(), iterator::operator++, iterator::operator==
\* (an iterator is its current_)
begin(T) ==
    getSmallestNode(T)

end ==
    NULL

iteratorIncrement(T, it) ==
    successor(T, it)

iteratorEquals(it1, it2) ==
    it1 = it2

\* checkHeight that does not pass on the -1 of the right subtree
RECURSIVE checkHeight_dropsRight(_, _)
checkHeight_dropsRight(T, node) ==
    IF node = NULL THEN 0
    ELSE LET leftHeight == checkHeight_dropsRight(T, T.left[node])
         IN  IF leftHeight = -1 THEN -1
             ELSE LET rightHeight == checkHeight_dropsRight(T, T.right[node])
                  IN  IF leftHeight - rightHeight > 1
                         \/ rightHeight - leftHeight > 1 THEN -1
                      ELSE (IF leftHeight > rightHeight THEN leftHeight
                                                        ELSE rightHeight) + 1

\* checkHeight: the height of the subtree, or -1 once any node is unbalanced
RECURSIVE checkHeight(_, _)
checkHeight(T, node) ==
    IF node = NULL THEN 0
    ELSE LET leftHeight == checkHeight(T, T.left[node])
         IN  IF leftHeight = -1 THEN -1
             ELSE LET rightHeight == checkHeight(T, T.right[node])
                  IN  IF rightHeight = -1 THEN -1
                      ELSE IF leftHeight - rightHeight > 1
                              \/ rightHeight - leftHeight > 1 THEN -1
                      ELSE (IF leftHeight > rightHeight THEN leftHeight
                                                        ELSE rightHeight) + 1

isBalanced(T) ==
    checkHeight(T, T.root) # -1

---------------------------------------------------------------------------
\* BinarySearchTree: insert, nodeSwap, remove, clear

\* insertLoop that sends an equal key to the right instead of stopping
RECURSIVE insertLoop_noEqual(_, _, _, _)
insertLoop_noEqual(T, current, parent, k) ==
    IF current = NULL THEN [hit |-> NULL, parent |-> parent]
    ELSE IF k < T.key[current] THEN insertLoop_noEqual(T, T.left[current], current, k)
    ELSE insertLoop_noEqual(T, T.right[current], current, k)

\* the descent of insert(): the node that holds the key (hit) or nullptr, and
\* the last node visited (parent)
RECURSIVE insertLoop(_, _, _, _)
insertLoop(T, current, parent, k) ==
    IF current = NULL THEN [hit |-> NULL, parent |-> parent]
    ELSE IF k < T.key[current] THEN insertLoop(T, T.left[current], current, k)
    ELSE IF k > T.key[current] THEN insertLoop(T, T.right[current], current, k)
    ELSE [hit |-> current, parent |-> current]

\* attachNewNode with the comparison turned round
attachNewNode_wrongSide(T, parent, newNode, k) ==
    IF k > T.key[parent] THEN setLeft(T, parent, newNode)
                         ELSE setRight(T, parent, newNode)

\* the end of insert(): the new node hangs on the side of parent its key orders it
attachNewNode(T, parent, newNode, k) ==
    IF k < T.key[parent] THEN setLeft(T, parent, newNode)
                         ELSE setRight(T, parent, newNode)

BinarySearchTree_insert(T, k, v) ==
    IF T.root = NULL
    THEN LET a == Alloc(T, k)
         IN  [NewNode(T, a, k, v, NULL) EXCEPT !.root = a]
    ELSE LET d == insertLoop(T, T.root, NULL, k)
         IN  IF d.hit # NULL
             THEN setValue(T, d.hit, v)
             ELSE LET newNode == Alloc(T, k)
                  IN  attachNewNode(NewNode(T, newNode, k, v, d.parent),
                                    d.parent, newNode, k)

\* the adjacency repair of nodeSwap (bst.h 635-650)
nodeSwapAdjacent(T, n1, n2, n1r, n1lt, n2r, n2lt) ==
    IF n1r # NULL /\ n1r = n2 THEN setParent(setRight(T, n2, n1), n1, n2)
    ELSE IF n2r # NULL /\ n2r = n1 THEN setParent(setRight(T, n1, n2), n2, n1)
    ELSE IF n1lt # NULL /\ n1lt = n2 THEN setParent(setLeft(T, n2, n1), n1, n2)
    ELSE IF n2lt # NULL /\ n2lt = n1 THEN setParent(setLeft(T, n1, n2), n2, n1)
    ELSE T

\* the neighbours of the node that stood at old's place now name new
\* (bst.h 652-661 with (n1, n2), 663-672 with (n2, n1))
\* the re-pointing of the neighbours that leaves the children's parent_ alone
nodeSwapNeighbours_parentOnly(T, old, new, p, isLeft, r, lt) ==
    IF p # NULL /\ p # old
    THEN (IF isLeft THEN setLeft(T, p, new) ELSE setRight(T, p, new))
    ELSE T

nodeSwapNeighbours(T, old, new, p, isLeft, r, lt) ==
    LET T1 == IF p # NULL /\ p # new
              THEN (IF isLeft THEN setLeft(T, p, new) ELSE setRight(T, p, new))
              ELSE T
        T2 == IF r # NULL /\ r # new THEN setParent(T1, r, new) ELSE T1
    IN  IF lt # NULL /\ lt # new THEN setParent(T2, lt, new) ELSE T2

\* nodeSwap that exchanges the two nodes' items and leaves every link alone
nodeSwap_exchangesItems(T, n1, n2) ==
    IF n1 = n2 \/ n1 = NULL \/ n2 = NULL THEN T
    ELSE [T EXCEPT !.key[n1] = T.key[n2], !.key[n2] = T.key[n1],
                   !.value[n1] = T.value[n2], !.value[n2] = T.value[n1]]

BinarySearchTree_nodeSwap(T, n1, n2) ==
    IF n1 = n2 \/ n1 = NULL \/ n2 = NULL THEN T
    ELSE
    LET n1p == T.parent[n1]
        n1r == T.right[n1]
        n1lt == T.left[n1]
        n1isLeft == n1p # NULL /\ n1 = T.left[n1p]
        n2p == T.parent[n2]
        n2r == T.right[n2]
        n2lt == T.left[n2]
        n2isLeft == n2p # NULL /\ n2 = T.left[n2p]
        \* the three exchanges through temp
        T1 == [T EXCEPT !.parent[n1] = T.parent[n2], !.parent[n2] = T.parent[n1]]
        T2 == [T1 EXCEPT !.left[n1] = T1.left[n2], !.left[n2] = T1.left[n1]]
        T3 == [T2 EXCEPT !.right[n1] = T2.right[n2], !.right[n2] = T2.right[n1]]
        T4 == nodeSwapAdjacent(T3, n1, n2, n1r, n1lt, n2r, n2lt)
        T5 == nodeSwapNeighbours(T4, n1, n2, n1p, n1isLeft, n1r, n1lt)
        T6 == nodeSwapNeighbours(T5, n2, n1, n2p, n2isLeft, n2r, n2lt)
    IN  IF T6.root = n1 THEN [T6 EXCEPT !.root = n2]
        ELSE IF T6.root = n2 THEN [T6 EXCEPT !.root = n1]
        ELSE T6

\* spliceOut without child->setParent(parent)
spliceOut_keepsChildParent(T, nodeToRemove, parent) ==
    LET child == IF T.left[nodeToRemove] # NULL THEN T.left[nodeToRemove]
                                                ELSE T.right[nodeToRemove]
        T2 == IF parent = NULL THEN [T EXCEPT !.root = child]
              ELSE IF T.left[parent] = nodeToRemove THEN setLeft(T, parent, child)
              ELSE setRight(T, parent, child)
    IN  [T2 EXCEPT !.live = @ \ {nodeToRemove}]

\* the end of remove() (bst.h 470-483, avlbst.h 191-203): child takes the place
\* of nodeToRemove under parent, and nodeToRemove is deleted
spliceOut(T, nodeToRemove, parent) ==
    LET child == IF T.left[nodeToRemove] # NULL THEN T.left[nodeToRemove]
                                                ELSE T.right[nodeToRemove]
        T1 == IF child # NULL THEN setParent(T, child, parent) ELSE T
        T2 == IF parent = NULL THEN [T1 EXCEPT !.root = child]
              ELSE IF T1.left[parent] = nodeToRemove THEN setLeft(T1, parent, child)
              ELSE setRight(T1, parent, child)
    IN  DeleteNode(T2, nodeToRemove)

\* remove, up to the unlinking: the swap with the predecessor of a node with
\* two children
BinarySearchTree_removeSwap(T, nodeToRemove) ==
    IF T.left[nodeToRemove] # NULL /\ T.right[nodeToRemove] # NULL
    THEN BinarySearchTree_nodeSwap(T, nodeToRemove, predecessor(T, nodeToRemove))
    ELSE T

BinarySearchTree_remove(T, k) ==
    LET nodeToRemove == internalFind(T, k)
    IN  IF nodeToRemove = NULL THEN T
        ELSE LET T1 == BinarySearchTree_removeSwap(T, nodeToRemove)
             IN  spliceOut(T1, nodeToRemove, T1.parent[nodeToRemove])

\* clearHelper that forgets the right subtree
RECURSIVE clearHelper_leftOnly(_, _)
clearHelper_leftOnly(T, node) ==
    IF node = NULL THEN T
    ELSE DeleteNode(clearHelper_leftOnly(T, T.left[node]), node)

\* clearHelper: delete the left subtree, the right subtree, then the node
RECURSIVE clearHelper(_, _)
clearHelper(T, node) ==
    IF node = NULL THEN T
    ELSE LET l == T.left[node]
             r == T.right[node]
         IN  DeleteNode(clearHelper(clearHelper(T, l), r), node)

\* clear that leaves root_ as it was
clear_keepsRoot(T) ==
    clearHelper(T, T.root)

clear(T) ==
    [clearHelper(T, T.root) EXCEPT !.root = NULL]

\* operator[] after std::map: a missing key is inserted with a default value
subscript_insertsDefault(T, k) ==
    LET curr == internalFind(T, k)
    IN  IF curr = NULL
        THEN [tree |-> BinarySearchTree_insert(T, k, "a"), err |-> "none", value |-> "a"]
        ELSE [tree |-> T, err |-> "none", value |-> T.value[curr]]

\* operator[]: the value at the key, or std::out_of_range
subscript(T, k) ==
    LET curr == internalFind(T, k)
    IN  IF curr = NULL THEN [tree |-> T, err |-> "out_of_range", value |-> NoValue]
                       ELSE [tree |-> T, err |-> "none", value |-> T.value[curr]]

---------------------------------------------------------------------------
\* AVLTree

\* computeHeight: the height of nullptr is 0
RECURSIVE computeHeight(_, _)
computeHeight(T, node) ==
    IF node = NULL THEN 0
    ELSE LET lh == computeHeight(T, T.left[node])
             rh == computeHeight(T, T.right[node])
         IN  (IF lh > rh THEN lh ELSE rh) + 1

\* AVLTree::updateBalance: balance_ = height(left) - height(right)
updateBalance(T, node) ==
    IF node = NULL THEN T
    ELSE LET leftHeight == IF T.left[node] = NULL THEN 0
                           ELSE computeHeight(T, T.left[node])
             rightHeight == IF T.right[node] = NULL THEN 0
                            ELSE computeHeight(T, T.right[node])
         IN  setBalance(T, node, leftHeight - rightHeight)

\* rotateLeft that leaves the parent_ of the moved subtree alone
rotateLeft_keepsInnerParent(T, n) ==
    LET r == T.right[n]
        T1 == setRight(T, n, T.left[r])
        T3 == setParent(T1, r, T1.parent[n])
        T4 == IF T3.parent[n] = NULL THEN [T3 EXCEPT !.root = r]
              ELSE IF n = T3.left[T3.parent[n]] THEN setLeft(T3, T3.parent[n], r)
              ELSE setRight(T3, T3.parent[n], r)
        T5 == setParent(setLeft(T4, r, n), n, r)
    IN  updateBalance(updateBalance(T5, n), r)

rotateLeft(T, n) ==
    LET r == T.right[n]
        T1 == setRight(T, n, T.left[r])
        T2 == IF T1.left[r] # NULL THEN setParent(T1, T1.left[r], n) ELSE T1
        T3 == setParent(T2, r, T2.parent[n])
        T4 == IF T3.parent[n] = NULL THEN [T3 EXCEPT !.root = r]
              ELSE IF n = T3.left[T3.parent[n]] THEN setLeft(T3, T3.parent[n], r)
              ELSE setRight(T3, T3.parent[n], r)
        T5 == setParent(setLeft(T4, r, n), n, r)
    IN  updateBalance(updateBalance(T5, n), r)

\* rotateRight that recomputes the balance of the new subtree root only
rotateRight_staleBalance(T, n) ==
    LET l == T.left[n]
        T1 == setLeft(T, n, T.right[l])
        T2 == IF T1.right[l] # NULL THEN setParent(T1, T1.right[l], n) ELSE T1
        T3 == setParent(T2, l, T2.parent[n])
        T4 == IF T3.parent[n] = NULL THEN [T3 EXCEPT !.root = l]
              ELSE IF n = T3.right[T3.parent[n]] THEN setRight(T3, T3.parent[n], l)
              ELSE setLeft(T3, T3.parent[n], l)
        T5 == setParent(setRight(T4, l, n), n, l)
    IN  updateBalance(T5, l)

rotateRight(T, n) ==
    LET l == T.left[n]
        T1 == setLeft(T, n, T.right[l])
        T2 == IF T1.right[l] # NULL THEN setParent(T1, T1.right[l], n) ELSE T1
        T3 == setParent(T2, l, T2.parent[n])
        T4 == IF T3.parent[n] = NULL THEN [T3 EXCEPT !.root = l]
              ELSE IF n = T3.right[T3.parent[n]] THEN setRight(T3, T3.parent[n], l)
              ELSE setLeft(T3, T3.parent[n], l)
        T5 == setParent(setRight(T4, l, n), n, l)
    IN  updateBalance(updateBalance(T5, n), l)

\* rebalanceCase that rotates only on the left-heavy side
rebalanceCase_leftOnly(T, node, balance) ==
    IF balance > 1
    THEN LET leftChild == T.left[node]
         IN  IF leftChild # NULL
                /\ computeHeight(T, T.left[leftChild])
                     < computeHeight(T, T.right[leftChild])
             THEN "LR" ELSE "LL"
    ELSE "none"

\* which rotations one step of the rebalance walk performs at node, given its
\* recomputed balance: "LR", "LL", "RL", "RR" or "none"
\* rebalanceCase that rotates on the left side from a balance of 1 on
rebalanceCase_rotatesAtOne(T, node, balance) ==
    IF balance > 0
    THEN LET leftChild == T.left[node]
         IN  IF leftChild # NULL
                /\ computeHeight(T, T.left[leftChild])
                     < computeHeight(T, T.right[leftChild])
             THEN "LR" ELSE "LL"
    ELSE IF balance < -1
    THEN LET rightChild == T.right[node]
         IN  IF rightChild # NULL
                /\ computeHeight(T, T.right[rightChild])
                     < computeHeight(T, T.left[rightChild])
             THEN "RL" ELSE "RR"
    ELSE "none"

\* rebalanceCase that takes the double rotation on the left side also when the
\* two grandchildren are of equal height
rebalanceCase_doubleOnTie(T, node, balance) ==
    IF balance > 1
    THEN LET leftChild == T.left[node]
         IN  IF leftChild # NULL
                /\ computeHeight(T, T.left[leftChild])
                     <= computeHeight(T, T.right[leftChild])
             THEN "LR" ELSE "LL"
    ELSE IF balance < -1
    THEN LET rightChild == T.right[node]
         IN  IF rightChild # NULL
                /\ computeHeight(T, T.right[rightChild])
                     < computeHeight(T, T.left[rightChild])
             THEN "RL" ELSE "RR"
    ELSE "none"

rebalanceCase(T, node, balance) ==
    IF balance > 1
    THEN LET leftChild == T.left[node]
         IN  IF leftChild # NULL
                /\ computeHeight(T, T.left[leftChild])
                     < computeHeight(T, T.right[leftChild])
             THEN "LR" ELSE "LL"
    ELSE IF balance < -1
    THEN LET rightChild == T.right[node]
         IN  IF rightChild # NULL
                /\ computeHeight(T, T.right[rightChild])
                     < computeHeight(T, T.left[rightChild])
             THEN "RL" ELSE "RR"
    ELSE "none"

\* the rotations of one pass, chosen by rebalanceCase
rebalanceRotate(T, node, rot) ==
    IF rot = "LR" THEN rotateRight(rotateLeft(T, T.left[node]), node)
    ELSE IF rot = "LL" THEN rotateRight(T, node)
    ELSE IF rot = "RL" THEN rotateLeft(rotateRight(T, T.right[node]), node)
    ELSE IF rot = "RR" THEN rotateLeft(T, node)
    ELSE T

\* The record of one pass, from the tree T1 after updateBalance(node) and the
\* tree T2 after the rotations: the balance computed for node, the rotations
\* chosen, the balance stored in the child on the heavy side when they were
\* chosen (heavy), the parent node had (above), the node that is in the place
\* of node afterwards (top), and the balances of top and its children
\* afterwards, as stored and as the heights give them.
rebalanceRecord(T1, T2, node, rot) ==
    LET balance == T1.balance[node]
        above == T1.parent[node]
        top == IF above = NULL THEN T2.root
               ELSE IF T1.left[above] = node THEN T2.left[above]
               ELSE T2.right[above]
        heavyChild == IF balance > 1 THEN T1.left[node]
                      ELSE IF balance < -1 THEN T1.right[node]
                      ELSE NULL
    IN  [node |-> node, balance |-> balance, rot |-> rot,
         heavy |-> IF heavyChild = NULL THEN 0 ELSE T1.balance[heavyChild],
         above |-> above, top |-> top,
         stored |-> {T2.balance[x] : x \in {top, T2.left[top], T2.right[top]} \ {NULL}},
         measured |-> {Height(T2, T2.left[x]) - Height(T2, T2.right[x]) :
                         x \in {top, T2.left[top], T2.right[top]} \ {NULL}}]

rebalanceRotated(T1, T2, node, rot) ==
    [tree |-> T2, step |-> rebalanceRecord(T1, T2, node, rot)]

rebalanceBalanced(T1, node, rot) ==
    rebalanceRotated(T1, rebalanceRotate(T1, node, rot), node, rot)

\* one pass of the body of the while loop of rebalance: updateBalance(node),
\* the choice of the rotations, the rotations
rebalanceStep(T, node) ==
    LET T1 == updateBalance(T, node)
    IN  rebalanceBalanced(T1, node, rebalanceCase(T1, node, T1.balance[node]))

\* a walk that ends after its first step
rebalanceNext_stops(T, node) ==
    NULL

\* the node the walk goes to after a step at node
rebalanceNext(T, node) ==
    T.parent[node]

\* rebalance: the while loop; walk is the sequence of steps taken so far
RECURSIVE rebalanceLoop(_, _, _)
rebalanceLoop(T, node, walk) ==
    IF node = NULL THEN [tree |-> T, walk |-> walk]
    ELSE LET s == rebalanceStep(T, node)
         IN  rebalanceLoop(s.tree, rebalanceNext(s.tree, node), Append(walk, s.step))

rebalance(T, node) ==
    rebalanceLoop(T, node, <<>>)

\* insert that starts the walk one node too high
AVLTree_insert_walkFromGrandparent(T, k, v) ==
    IF T.root = NULL
    THEN LET a == Alloc(T, k)
         IN  [tree |-> [NewNode(T, a, k, v, NULL) EXCEPT !.root = a], walk |-> <<>>]
    ELSE LET d == insertLoop(T, T.root, NULL, k)
         IN  IF d.hit # NULL
             THEN [tree |-> setValue(T, d.hit, v), walk |-> <<>>]
             ELSE LET newNode == Alloc(T, k)
                  IN  rebalance(attachNewNode(NewNode(T, newNode, k, v, d.parent),
                                              d.parent, newNode, k),
                                T.parent[d.parent])

AVLTree_insert(T, k, v) ==
    IF T.root = NULL
    THEN LET a == Alloc(T, k)
         IN  [tree |-> [NewNode(T, a, k, v, NULL) EXCEPT !.root = a], walk |-> <<>>]
    ELSE LET d == insertLoop(T, T.root, NULL, k)
         IN  IF d.hit # NULL
             THEN [tree |-> setValue(T, d.hit, v), walk |-> <<>>]
             ELSE LET newNode == Alloc(T, k)
                  IN  rebalance(attachNewNode(NewNode(T, newNode, k, v, d.parent),
                                              d.parent, newNode, k),
                                d.parent)

\* the exchange of the two balance factors that ends every branch of nodeSwap
swapBalance(T, n1, n2) ==
    [T EXCEPT !.balance[n1] = T.balance[n2], !.balance[n2] = T.balance[n1]]

\* the left-child case that leaves the parent_ of the moved subtree alone
nodeSwapLeftChild_keepsInnerParent(T, n1, n2) ==
    LET P == T.parent[n1]
        B == T.right[n2]
        T1 == setParent(T, n2, P)
        T2 == IF P # NULL
              THEN (IF T1.left[P] = n1 THEN setLeft(T1, P, n2) ELSE setRight(T1, P, n2))
              ELSE [T1 EXCEPT !.root = n2]
        T3 == setLeft(setParent(setRight(T2, n2, n1), n1, n2), n1, B)
    IN  swapBalance(T3, n1, n2)

\* AVLTree::nodeSwap, n2 the left child of n1 (avlbst.h 221-242)
nodeSwapLeftChild(T, n1, n2) ==
    LET P == T.parent[n1]
        B == T.right[n2]
        T1 == setParent(T, n2, P)
        T2 == IF P # NULL
              THEN (IF T1.left[P] = n1 THEN setLeft(T1, P, n2) ELSE setRight(T1, P, n2))
              ELSE [T1 EXCEPT !.root = n2]
        T3 == setLeft(setParent(setRight(T2, n2, n1), n1, n2), n1, B)
        T4 == IF B # NULL THEN setParent(T3, B, n1) ELSE T3
    IN  swapBalance(T4, n1, n2)

\* AVLTree::nodeSwap, n2 the right child of n1 (avlbst.h 243-264)
nodeSwapRightChild(T, n1, n2) ==
    LET P == T.parent[n1]
        B == T.left[n2]
        T1 == setParent(T, n2, P)
        T2 == IF P # NULL
              THEN (IF T1.left[P] = n1 THEN setLeft(T1, P, n2) ELSE setRight(T1, P, n2))
              ELSE [T1 EXCEPT !.root = n2]
        T3 == setRight(setParent(setLeft(T2, n2, n1), n1, n2), n1, B)
        T4 == IF B # NULL THEN setParent(T3, B, n1) ELSE T3
    IN  swapBalance(T4, n1, n2)

AVLTree_nodeSwap(T, n1, n2) ==
    IF T.left[n1] = n2 THEN nodeSwapLeftChild(T, n1, n2)
    ELSE IF T.right[n1] = n2 THEN nodeSwapRightChild(T, n1, n2)
    ELSE swapBalance(BinarySearchTree_nodeSwap(T, n1, n2), n1, n2)

\* a remove that never swaps
AVLTree_removeSwap_noSwap(T, nodeToRemove) ==
    T

\* remove, up to the unlinking: the swap with the predecessor of a node with
\* two children
AVLTree_removeSwap(T, nodeToRemove) ==
    IF T.left[nodeToRemove] # NULL /\ T.right[nodeToRemove] # NULL
    THEN AVLTree_nodeSwap(T, nodeToRemove, predecessor(T, nodeToRemove))
    ELSE T

AVLTree_remove(T, k) ==
    LET nodeToRemove == internalFind(T, k)
    IN  IF nodeToRemove = NULL THEN [tree |-> T, walk |-> <<>>]
        ELSE LET T1 == AVLTree_removeSwap(T, nodeToRemove)
                 \* read before the swap, and again after it
                 parent == T1.parent[nodeToRemove]
                 T2 == spliceOut(T1, nodeToRemove, parent)
             IN  IF parent # NULL THEN rebalance(T2, parent)
                 ELSE [tree |-> T2, walk |-> <<>>]

---------------------------------------------------------------------------
\* equal-paths.cpp. Its Node has a key, left and right; the heap above serves
\* for it, with parent_ unread. The result of checkEqualPaths is its return
\* value (ret) together with the value it leaves in its reference parameter
\* height.

\* checkEqualPaths whose height is a value parameter: the right subtree does
\* not see what the left subtree found
RECURSIVE checkEqualPaths_byValue(_, _, _, _)
checkEqualPaths_byValue(T, root, height, currentHeight) ==
    IF root = NULL THEN [ret |-> TRUE, height |-> height]
    ELSE IF T.left[root] = NULL /\ T.right[root] = NULL
    THEN (IF height = -1 THEN [ret |-> TRUE, height |-> currentHeight]
          ELSE [ret |-> height = currentHeight, height |-> height])
    ELSE LET leftEqual == IF T.left[root] # NULL
                          THEN checkEqualPaths_byValue(T, T.left[root], height,
                                                       currentHeight + 1)
                          ELSE [ret |-> TRUE, height |-> height]
             rightEqual == IF T.right[root] # NULL
                           THEN checkEqualPaths_byValue(T, T.right[root], height,
                                                        currentHeight + 1)
                           ELSE [ret |-> TRUE, height |-> height]
         IN  [ret |-> leftEqual.ret /\ rightEqual.ret, height |-> rightEqual.height]

RECURSIVE checkEqualPaths(_, _, _, _)
checkEqualPaths(T, root, height, currentHeight) ==
    IF root = NULL THEN [ret |-> TRUE, height |-> height]
    ELSE IF T.left[root] = NULL /\ T.right[root] = NULL
    THEN (IF height = -1 THEN [ret |-> TRUE, height |-> currentHeight]
          ELSE [ret |-> height = currentHeight, height |-> height])
    ELSE LET leftEqual == IF T.left[root] # NULL
                          THEN checkEqualPaths(T, T.left[root], height, currentHeight + 1)
                          ELSE [ret |-> TRUE, height |-> height]
             rightEqual == IF T.right[root] # NULL
                           THEN checkEqualPaths(T, T.right[root], leftEqual.height,
                                                currentHeight + 1)
                           ELSE [ret |-> TRUE, height |-> leftEqual.height]
         IN  [ret |-> leftEqual.ret /\ rightEqual.ret, height |-> rightEqual.height]

equalPaths(T, root) ==
    IF root = NULL THEN TRUE
    ELSE checkEqualPaths(T, root, -1, 1).ret

---------------------------------------------------------------------------
\* The calls. Each action is one call on the tree object, from entry to return;
\* insert and remove are virtual and dispatch on the dynamic type.

\* What a remove saw and did when it unlinked nodeToRemove from T, the tree
\* after the swap: the children the node had, its parent and the side it hung
\* on, what is in that slot once the node is unlinked, and the parents its
\* children have then.
unlinked(T, nodeToRemove) ==
    LET parent == T.parent[nodeToRemove]
        kids == {T.left[nodeToRemove], T.right[nodeToRemove]} \ {NULL}
        side == IF parent = NULL
                THEN (IF T.root = nodeToRemove THEN "root" ELSE "none")
                ELSE IF T.left[parent] = nodeToRemove THEN "left"
                ELSE IF T.right[parent] = nodeToRemove THEN "right"
                ELSE "none"
        T2 == spliceOut(T, nodeToRemove, parent)
    IN  [node |-> nodeToRemove, kids |-> kids, parent |-> parent, side |-> side,
         slot |-> IF parent = NULL THEN T2.root
                  ELSE IF side = "left" THEN T2.left[parent]
                  ELSE T2.right[parent],
         kidParents |-> {T2.parent[c] : c \in kids}]

NoUnlink ==
    [node |-> NULL, kids |-> {}, parent |-> NULL, side |-> "none", slot |-> NULL,
     kidParents |-> {}]

NoRet ==
    [node |-> NULL, node2 |-> NULL, value |-> NoValue, flag |-> FALSE,
     err |-> "none", keys |-> <<>>]

Call(op, k, v) ==
    [op |-> op, key |-> k, value |-> v,
     found |-> Holders(tree, k) # {},
     old |-> IF Holders(tree, k) # {}
             THEN tree.value[CHOOSE n \in Holders(tree, k) : TRUE] ELSE NoValue,
     two |-> \E n \in Holders(tree, k) : tree.left[n] # NULL /\ tree.right[n] # NULL,
     walk |-> <<>>, unlink |-> NoUnlink]

Init ==
    /\ kind \in {"BST", "AVL"}
    /\ tree = EmptyTree
    /\ last = [op |-> "new", key |-> 0, value |-> NoValue, found |-> FALSE,
               old |-> NoValue, two |-> FALSE, walk |-> <<>>, unlink |-> NoUnlink]
    /\ ret = NoRet
    /\ twin = EmptyTree

Insert(k, v) ==
    LET out == IF kind = "AVL" THEN AVLTree_insert(tree, k, v)
               ELSE [tree |-> BinarySearchTree_insert(tree, k, v), walk |-> <<>>]
    IN  /\ tree' = out.tree
        /\ last' = [Call("insert", k, v) EXCEPT !.walk = out.walk]
        /\ ret' = NoRet
        /\ UNCHANGED <<kind, twin>>

Remove(k) ==
    LET out == IF kind = "AVL" THEN AVLTree_remove(tree, k)
               ELSE [tree |-> BinarySearchTree_remove(tree, k), walk |-> <<>>]
        nodeToRemove == internalFind(tree, k)
    IN  /\ tree' = out.tree
        /\ last' = [Call("remove", k, NoValue) EXCEPT
                       !.walk = out.walk,
                       !.unlink = IF nodeToRemove = NULL THEN NoUnlink
                                  ELSE IF kind = "AVL"
                                  THEN unlinked(AVLTree_removeSwap(tree, nodeToRemove),
                                                nodeToRemove)
                                  ELSE unlinked(BinarySearchTree_removeSwap(tree, nodeToRemove),
                                                nodeToRemove)]
        /\ ret' = NoRet
        /\ UNCHANGED <<kind, twin>>

\* for clear, found tells whether the tree held a key on entry
Clear ==
    /\ tree' = clear(tree)
    /\ last' = [Call("clear", 0, NoValue) EXCEPT !.found = tree.live # {}]
    /\ ret' = NoRet
    /\ UNCHANGED <<kind, twin>>

Find(k) ==
    /\ last' = Call("find", k, NoValue)
    /\ ret' = [NoRet EXCEPT !.node = find(tree, k)]
    /\ UNCHANGED <<kind, tree, twin>>

Subscript(k) ==
    LET r == subscript(tree, k)
    IN  /\ tree' = r.tree
        /\ last' = Call("subscript", k, NoValue)
        /\ ret' = [NoRet EXCEPT !.err = r.err, !.value = r.value]
        /\ UNCHANGED <<kind, twin>>

IsBalanced ==
    /\ last' = Call("isBalanced", 0, NoValue)
    /\ ret' = [NoRet EXCEPT !.flag = isBalanced(tree)]
    /\ UNCHANGED <<kind, tree, twin>>

Empty ==
    /\ last' = Call("empty", 0, NoValue)
    /\ ret' = [NoRet EXCEPT !.flag = empty(tree)]
    /\ UNCHANGED <<kind, tree, twin>>

\* the caller's loop for(it = begin(); it != end(); ++it), collecting it->first
RECURSIVE traverseLoop(_, _, _)
traverseLoop(T, it, keys) ==
    IF iteratorEquals(it, end) THEN keys
    ELSE traverseLoop(T, iteratorIncrement(T, it), Append(keys, T.key[it]))

Traverse ==
    /\ last' = Call("traverse", 0, NoValue)
    /\ ret' = [NoRet EXCEPT !.keys = traverseLoop(tree, begin(tree), <<>>)]
    /\ UNCHANGED <<kind, tree, twin>>

\* Keys and values both vary: the calls that write or read a value.
Next ==
    \/ \E k \in Key, v \in Value : Insert(k, v)
    \/ \E k \in Key : Remove(k)
    \/ Clear
    \/ \E k \in Key : Subscript(k)

Spec ==
    Init /\ [][Next]_vars

\* One more key and a single value: every call, on the shapes of larger trees.
ShapeNext ==
    \/ \E k \in WideKey : Insert(k, "a")
    \/ \E k \in WideKey : Remove(k)
    \/ Clear
    \/ \E k \in WideKey : Find(k)
    \/ \E k \in WideKey : Subscript(k)
    \/ IsBalanced
    \/ Empty
    \/ Traverse

SpecShape ==
    Init /\ [][ShapeNext]_vars

\* The worked scenario on an AVLTree: the keys of ScenarioKeys are inserted in
\* order into an empty tree, then the first of them (the root) is removed;
\* isBalanced() and a traversal may be called at any point.
ScenarioInit ==
    Init /\ kind = "AVL"

ScenarioInsert ==
    \E i \in DOMAIN ScenarioKeys :
        /\ {tree.key[n] : n \in tree.live} = {ScenarioKeys[j] : j \in 1..(i - 1)}
        /\ \E v \in Value : Insert(ScenarioKeys[i], v)

ScenarioRemove ==
    /\ {tree.key[n] : n \in tree.live} = {ScenarioKeys[j] : j \in DOMAIN ScenarioKeys}
    /\ Remove(ScenarioKeys[1])

ScenarioNext ==
    \/ ScenarioInsert
    \/ ScenarioRemove
    \/ IsBalanced
    \/ Traverse

SpecScenario ==
    ScenarioInit /\ [][ScenarioNext]_vars

\* The protected primitives, each called once on a tree that inserts and
\* removes built: nodeSwap of the base class and of AVLTree on any two distinct
\* nodes, rotateLeft on any node with a right child, rotateRight on any node
\* with a left child. A primitive leaves the tree as its caller would find it
\* in the middle of a remove or of a rebalance, so no call follows it.
NodeSwap(n1, n2) ==
    /\ tree' = BinarySearchTree_nodeSwap(tree, n1, n2)
    /\ last' = Call("nodeSwap", tree.key[n1], NoValue)
    /\ ret' = [NoRet EXCEPT !.node = n1, !.node2 = n2]
    /\ UNCHANGED <<kind, twin>>

AvlNodeSwap(n1, n2) ==
    /\ kind = "AVL"
    /\ tree' = AVLTree_nodeSwap(tree, n1, n2)
    /\ last' = Call("avlNodeSwap", tree.key[n1], NoValue)
    /\ ret' = [NoRet EXCEPT !.node = n1, !.node2 = n2]
    /\ UNCHANGED <<kind, twin>>

RotateLeft(n) ==
    /\ kind = "AVL"
    /\ tree.right[n] # NULL
    /\ tree' = rotateLeft(tree, n)
    /\ last' = Call("rotateLeft", tree.key[n], NoValue)
    /\ ret' = [NoRet EXCEPT !.node = n]
    /\ UNCHANGED <<kind, twin>>

RotateRight(n) ==
    /\ kind = "AVL"
    /\ tree.left[n] # NULL
    /\ tree' = rotateRight(tree, n)
    /\ last' = Call("rotateRight", tree.key[n], NoValue)
    /\ ret' = [NoRet EXCEPT !.node = n]
    /\ UNCHANGED <<kind, twin>>

\* predecessor and successor, protected and static, on any node and on nullptr
Predecessor(current) ==
    /\ last' = Call("predecessor", IF current = NULL THEN 0 ELSE tree.key[current], NoValue)
    /\ ret' = [NoRet EXCEPT !.node = current, !.node2 = predecessor(tree, current)]
    /\ UNCHANGED <<kind, tree, twin>>

Successor(current) ==
    /\ last' = Call("successor", IF current = NULL THEN 0 ELSE tree.key[current], NoValue)
    /\ ret' = [NoRet EXCEPT !.node = current, !.node2 = successor(tree, current)]
    /\ UNCHANGED <<kind, tree, twin>>

\* no primitive was called yet
Settled ==
    last.op \in {"new", "insert", "remove"}

PrimitiveNext ==
    \/ Settled /\ \E k \in WideKey : Insert(k, "a")
    \/ Settled /\ \E k \in WideKey : Remove(k)
    \/ Settled /\ \E n1, n2 \in tree.live : n1 # n2 /\ NodeSwap(n1, n2)
    \/ Settled /\ \E n1, n2 \in tree.live : n1 # n2 /\ AvlNodeSwap(n1, n2)
    \/ Settled /\ \E n \in tree.live : RotateLeft(n)
    \/ Settled /\ \E n \in tree.live : RotateRight(n)
    \/ Settled /\ \E n \in tree.live \cup {NULL} : Predecessor(n)
    \/ Settled /\ \E n \in tree.live \cup {NULL} : Successor(n)

SpecPrimitive ==
    Init /\ [][PrimitiveNext]_vars

\* Two tree objects side by side: an AVLTree (tree) and a BinarySearchTree
\* (twin), both empty at first, and every insert, remove and clear is called on
\* the one and then on the other with the same arguments.
TwinInit ==
    Init /\ kind = "AVL"

TwinInsert(k, v) ==
    LET out == AVLTree_insert(tree, k, v)
    IN  /\ tree' = out.tree
        /\ twin' = BinarySearchTree_insert(twin, k, v)
        /\ last' = [Call("insert", k, v) EXCEPT !.walk = out.walk]
        /\ ret' = NoRet
        /\ UNCHANGED kind

TwinRemove(k) ==
    LET out == AVLTree_remove(tree, k)
    IN  /\ tree' = out.tree
        /\ twin' = BinarySearchTree_remove(twin, k)
        /\ last' = [Call("remove", k, NoValue) EXCEPT !.walk = out.walk]
        /\ ret' = NoRet
        /\ UNCHANGED kind

TwinClear ==
    /\ tree' = clear(tree)
    /\ twin' = clear(twin)
    /\ last' = [Call("clear", 0, NoValue) EXCEPT !.found = tree.live # {}]
    /\ ret' = NoRet
    /\ UNCHANGED kind

TwinNext ==
    \/ \E k \in Key, v \in Value : TwinInsert(k, v)
    \/ \E k \in Key : TwinRemove(k)
    \/ TwinClear

SpecTwin ==
    TwinInit /\ [][TwinNext]_vars

\* equalPaths on binary trees of every shape of up to MaxKey + 1 nodes, which
\* the inserts and removes of a BinarySearchTree build.
PathsInit ==
    Init /\ kind = "BST"

EqualPaths ==
    /\ last' = Call("equalPaths", 0, NoValue)
    /\ ret' = [NoRet EXCEPT !.node = tree.root, !.flag = equalPaths(tree, tree.root)]
    /\ UNCHANGED <<kind, tree, twin>>

PathsNext ==
    \/ \E k \in WideKey : Insert(k, "a")
    \/ \E k \in WideKey : Remove(k)
    \/ EqualPaths

SpecPaths ==
    PathsInit /\ [][PathsNext]_vars

---------------------------------------------------------------------------
\* Properties

\* C1: after any sequence of insert and remove calls on an initially empty
\* tree of either type, the in-order traversal yields strictly increasing
\* keys: at every node every key of the left subtree is smaller and every key
\* of the right subtree is larger, so no key occurs twice.
C1_Ordered ==
    /\ StrictlyIncreasing(KeySeq(tree))
    /\ \A n \in Nodes(tree) :
          /\ \A m \in Subtree(tree, tree.left[n]) : tree.key[m] < tree.key[n]
          /\ \A m \in Subtree(tree, tree.right[n]) : tree.key[m] > tree.key[n]
    /\ \A n, m \in Nodes(tree) : tree.key[n] = tree.key[m] => n = m

\* a remove of a key held by a node with two children has returned and left
\* at least three keys, in the unbalanced tree
C1_Witness ==
    /\ last.op = "remove"
    /\ last.two
    /\ Len(KeySeq(tree)) >= 3
    /\ kind = "BST"

\* C2: after every AVLTree::insert or AVLTree::remove returns, every node's
\* stored balance factor is in {-1, 0, 1} and isBalanced() is true: at every
\* node the heights of the two subtrees differ by at most 1.
C2_AVLBalanced ==
    kind = "AVL" =>
        /\ \A n \in Nodes(tree) : tree.balance[n] \in {-1, 0, 1}
        /\ isBalanced(tree)
        /\ \A n \in Nodes(tree) :
              LET d == Height(tree, tree.left[n]) - Height(tree, tree.right[n])
              IN  d \in {-1, 0, 1}

\* an AVLTree::remove whose rebalance walk rotated has returned
C2_Witness ==
    /\ kind = "AVL"
    /\ last.op = "remove"
    /\ \E i \in 1..Len(last.walk) : last.walk[i].rot # "none"

\* C3: after every insert, remove or clear returns, on either tree type, the
\* links agree: the root has no parent; a node with parent A is A's left or
\* right child; a child of A has parent A; no node is both children of its
\* parent.
C3_LinksConsistent ==
    LET N == Nodes(tree) \cup tree.live
    IN  /\ tree.root # NULL => tree.parent[tree.root] = NULL
        /\ \A b \in N :
              LET a == tree.parent[b]
              IN  /\ a # NULL => (tree.left[a] = b \/ tree.right[a] = b)
                  /\ a = NULL => b = tree.root
        /\ \A a \in N :
              /\ tree.left[a] # NULL => tree.parent[tree.left[a]] = a
              /\ tree.right[a] # NULL => tree.parent[tree.right[a]] = a
              /\ tree.left[a] # NULL => tree.left[a] # tree.right[a]

\* an AVLTree::remove of a key held by a node with two children has returned,
\* and the node that took its place has a left child of its own
C3_Witness ==
    /\ kind = "AVL"
    /\ last.op = "remove"
    /\ last.two
    /\ tree.root # NULL
    /\ \E n \in Nodes(tree) : tree.left[n] # NULL /\ tree.right[n] # NULL

\* C4: remove(k) of a key held by a node with two children yields the
\* previous in-order sequence of (key, value) pairs with exactly the pair of k
\* deleted; every other key stays, in order, with the value it had.
C4_RemoveTwoChildren ==
    [][(last'.op = "remove" /\ last'.two) =>
          /\ PairSeq(tree') = Without(PairSeq(tree), last'.key)
          /\ Len(PairSeq(tree')) = Len(PairSeq(tree)) - 1]_vars

\* a remove of a key held by a node with two children, whose in-order
\* predecessor was not its own left child, has returned
C4_Witness ==
    /\ last.op = "remove"
    /\ last.two
    /\ \E i \in 1..Len(KeySeq(tree)) :
          /\ KeySeq(tree)[i] < last.key
          /\ \A j \in 1..Len(KeySeq(tree)) :
                KeySeq(tree)[j] < last.key => KeySeq(tree)[j] <= KeySeq(tree)[i]
          /\ tree.left[InOrder(tree, tree.root)[i]] # NULL

\* C5: immediately after insert(k, v), find(k) is an iterator to a node with
\* key k and value v; immediately after remove(k), find(k) equals end(),
\* whether or not k was present.
C5_RoundTrip ==
    /\ last.op = "insert" =>
          LET it == find(tree, last.key)
          IN  /\ ~iteratorEquals(it, end)
              /\ tree.key[it] = last.key
              /\ tree.value[it] = last.value
    /\ last.op = "remove" => iteratorEquals(find(tree, last.key), end)

\* an insert that overwrote the other value of a present key has returned
C5_Witness ==
    /\ last.op = "insert"
    /\ last.found
    /\ last.old # last.value
    /\ Len(KeySeq(tree)) >= 3

\* C6: insert(k, v2) on a tree that holds k changes the value stored at k's
\* node to v2 and nothing else: the nodes, every link, every balance factor
\* and every other value stay.
C6_OverwriteFrame ==
    [][(last'.op = "insert" /\ last'.found) =>
          \E n \in Holders(tree, last'.key) :
              tree' = [tree EXCEPT !.value[n] = last'.value]]_vars

\* an AVL insert of a present key with the other value has returned
C6_Witness ==
    /\ kind = "AVL"
    /\ last.op = "insert"
    /\ last.found
    /\ last.old # last.value
    /\ Len(KeySeq(tree)) >= 2

\* C7: remove(k) of a key that is not in the tree changes nothing (root,
\* nodes, links, values, balance factors) and raises no error, on both tree
\* types and on the empty tree.
C7_RemoveAbsentNoOp ==
    [][(last'.op = "remove" /\ ~last'.found) =>
          /\ tree' = tree
          /\ ret'.err = "none"]_vars

\* a remove of a missing key from a tree that holds other keys has returned
C7_Witness ==
    /\ last.op = "remove"
    /\ ~last.found
    /\ Len(KeySeq(tree)) >= 2

\* C8: operator[] on a missing key ends in the lookup failure, returns no
\* value, inserts nothing and leaves the tree as it was; on a present key it
\* returns the key's value and raises nothing.
C8_Subscript ==
    [][last'.op = "subscript" =>
          /\ tree' = tree
          /\ ~last'.found => (ret'.err = "out_of_range" /\ ret'.value = NoValue)
          /\ last'.found => (ret'.err = "none" /\ ret'.value = last'.old)]_vars

\* operator[] on a missing key of a tree that holds other keys has failed
C8_Witness ==
    /\ last.op = "subscript"
    /\ ~last.found
    /\ ret.err = "out_of_range"
    /\ tree.root # NULL

\* the iterator after i increments from begin()
RECURSIVE IterAt(_, _)
IterAt(T, i) ==
    IF i = 0 THEN begin(T) ELSE iteratorIncrement(T, IterAt(T, i - 1))

\* C9: with n keys in the tree, an iterator from begin() advanced with ++
\* visits every key once, in strictly ascending order, and equals end() after
\* exactly n increments (begin() = end() iff the tree is empty); two
\* iterators are equal iff they are at the same node or both past the end.
C9_Iteration ==
    LET n == Cardinality(Nodes(tree))
    IN  /\ iteratorEquals(begin(tree), end) <=> Nodes(tree) = {}
        /\ \A i \in 0..(n - 1) : ~iteratorEquals(IterAt(tree, i), end)
        /\ iteratorEquals(IterAt(tree, n), end)
        /\ \A i \in 0..(n - 2) :
              tree.key[IterAt(tree, i)] < tree.key[IterAt(tree, i + 1)]
        /\ {IterAt(tree, i) : i \in 0..(n - 1)} = Nodes(tree)
        /\ \A a, b \in Nodes(tree) \cup {end} : iteratorEquals(a, b) <=> a = b
        /\ last.op = "traverse" => ret.keys = KeySeq(tree)

\* a traversal of an unbalanced tree of at least four keys, in which some
\* node has two children, has ended
C9_Witness ==
    /\ kind = "BST"
    /\ last.op = "traverse"
    /\ Len(ret.keys) >= 4
    /\ \E n \in Nodes(tree) : tree.left[n] # NULL /\ tree.right[n] # NULL

\* the tree that inserting 1, 2, 3, 4, 5 in this order into an empty
\* BinarySearchTree builds: a chain of right children
IsChain12345 ==
    /\ kind = "BST"
    /\ KeySeq(tree) = <<1, 2, 3, 4, 5>>
    /\ \A n \in Nodes(tree) : tree.left[n] = NULL

\* C10: isBalanced() is false iff some node has subtree heights that differ
\* by more than 1 (absent child 0, node 1 + max); it is true of the empty
\* tree and false of the BinarySearchTree built by inserting 1, 2, 3, 4, 5.
C10_IsBalanced ==
    LET Fine == \A n \in Nodes(tree) :
                   LET d == Height(tree, tree.left[n]) - Height(tree, tree.right[n])
                   IN  d \in {-1, 0, 1}
    IN  /\ isBalanced(tree) <=> Fine
        /\ tree.root = NULL => isBalanced(tree)
        /\ IsChain12345 => ~isBalanced(tree)
        /\ last.op = "isBalanced" => (ret.flag <=> Fine)

\* isBalanced() has returned false on the chain 1, 2, 3, 4, 5
C10_Witness ==
    /\ IsChain12345
    /\ last.op = "isBalanced"
    /\ ~ret.flag

\* The addresses a node or root_ may name: the live nodes and nullptr.
NoDanglingLink(T) ==
    /\ T.root \in T.live \cup {NULL}
    /\ \A n \in T.live : /\ T.parent[n] \in T.live \cup {NULL}
                         /\ T.left[n] \in T.live \cup {NULL}
                         /\ T.right[n] \in T.live \cup {NULL}

\* C11: after every insert, remove and clear, on either tree type, the live
\* nodes are exactly the nodes reachable from the root, no live node and not
\* the root names freed storage, and nothing was freed twice. An insert of a
\* new key allocates exactly one node (an insert of a present key none), a
\* remove of a present key frees exactly the node that held the key (a remove
\* of an absent key none), and clear frees every node and empties the root.
C11_Ownership ==
    [][/\ tree'.live = Nodes(tree')
       /\ NoDanglingLink(tree')
       /\ ~tree'.fault
       /\ (last'.op = "insert" /\ ~last'.found) =>
              /\ tree.live \subseteq tree'.live
              /\ Cardinality(tree'.live \ tree.live) = 1
              /\ \A n \in tree'.live \ tree.live : tree'.key[n] = last'.key
       /\ (last'.op = "insert" /\ last'.found) => tree'.live = tree.live
       /\ (last'.op = "remove" /\ last'.found) =>
              /\ Cardinality(Holders(tree, last'.key)) = 1
              /\ tree'.live = tree.live \ Holders(tree, last'.key)
       /\ (last'.op = "remove" /\ ~last'.found) => tree'.live = tree.live
       /\ last'.op = "clear" => tree'.live = {} /\ tree'.root = NULL]_vars

\* a node with two children was removed from an AVL tree of MaxKey + 1 nodes:
\* one node was freed, the other MaxKey are live and reachable
C11_Witness ==
    /\ kind = "AVL"
    /\ last.op = "remove" /\ last.found /\ last.two
    /\ Cardinality(tree.live) = MaxKey
    /\ tree.live = Nodes(tree)

\* C12: inserting 5, 3, 8, 1, 4, 7, 9 in this order into an empty AVLTree
\* gives a tree of height at most 4 for which isBalanced() is true and whose
\* traversal is 1, 3, 4, 5, 7, 8, 9; remove(5) then leaves a tree whose
\* traversal is 1, 3, 4, 7, 8, 9 and for which isBalanced() is still true.
C12_Scenario ==
    /\ Cardinality(tree.live) = Len(ScenarioKeys) =>
           /\ Height(tree, tree.root) <= 4
           /\ isBalanced(tree)
           /\ KeySeq(tree) = <<1, 3, 4, 5, 7, 8, 9>>
           /\ traverseLoop(tree, begin(tree), <<>>) = <<1, 3, 4, 5, 7, 8, 9>>
    /\ (\E n \in tree.live : tree.key[n] = 9) /\ Holders(tree, 5) = {} =>
           /\ isBalanced(tree)
           /\ KeySeq(tree) = <<1, 3, 4, 7, 8, 9>>
           /\ traverseLoop(tree, begin(tree), <<>>) = <<1, 3, 4, 7, 8, 9>>
    /\ last.op = "isBalanced" => ret.flag
    /\ last.op = "traverse" => ret.keys = KeySeq(tree)

\* the seven keys were inserted and 5, then a node with two children, removed
C12_Witness ==
    /\ kind = "AVL"
    /\ last.op = "remove" /\ last.key = 5 /\ last.found /\ last.two
    /\ KeySeq(tree) = <<1, 3, 4, 7, 8, 9>>

\* C13: empty() is true exactly when the tree holds no key. It is true for a
\* newly constructed tree, true after clear() from any state, true after the
\* last remaining key was removed and false after any insert; and after
\* clear() the tree is in the state of a newly constructed one, so it accepts
\* further inserts and behaves as a new tree does.
C13_Empty ==
    /\ empty(tree)
    /\ [][/\ empty(tree') <=> tree'.live = {}
          /\ last'.op = "empty" => ret'.flag = (KeySeq(tree) = <<>>)
          /\ last'.op = "clear" => empty(tree') /\ tree' = EmptyTree
          /\ last'.op = "insert" => ~empty(tree')
          /\ (last'.op = "remove" /\ last'.found /\ Cardinality(tree.live) = 1)
                 => empty(tree')
          /\ (last'.op = "remove" /\ Cardinality(tree.live \ Holders(tree, last'.key)) > 0)
                 => ~empty(tree')]_vars

\* clear() was called on a tree that held keys and left the state of a new tree
C13_Witness ==
    /\ last.op = "clear" /\ last.found
    /\ empty(tree)
    /\ tree = EmptyTree

\* C14: after every AVLTree insert and remove, the balance factor stored in
\* every node of the tree, the nodes moved by nodeSwap or by rotations
\* included, is height(left subtree) - height(right subtree) as measured on
\* the tree itself.
C14_StoredBalance ==
    kind = "AVL" =>
        \A n \in Nodes(tree) :
            tree.balance[n] = Height(tree, tree.left[n]) - Height(tree, tree.right[n])

\* a remove from an AVL tree swapped the node with its predecessor and then
\* rotated, and some node of the result stores a balance other than 0
C14_Witness ==
    /\ kind = "AVL"
    /\ last.op = "remove" /\ last.found /\ last.two
    /\ \E i \in DOMAIN last.walk : last.walk[i].rot # "none"
    /\ \E n \in Nodes(tree) :
           /\ tree.balance[n] # 0
           /\ tree.balance[n] = Height(tree, tree.left[n]) - Height(tree, tree.right[n])

\* n1 for n2, n2 for n1, every other address for itself
Other(n1, n2, x) ==
    IF x = n1 THEN n2 ELSE IF x = n2 THEN n1 ELSE x

\* T with the structural positions of n1 and n2 exchanged: the node that
\* stands for x has the parent and the children that stand for those of x,
\* and every node keeps its own key, value and balance.
Exchanged(T, n1, n2) ==
    [T EXCEPT !.root = Other(n1, n2, T.root),
              !.parent = [a \in Addr |-> Other(n1, n2, T.parent[Other(n1, n2, a)])],
              !.left = [a \in Addr |-> Other(n1, n2, T.left[Other(n1, n2, a)])],
              !.right = [a \in Addr |-> Other(n1, n2, T.right[Other(n1, n2, a)])]]

\* C15: BinarySearchTree::nodeSwap(n1, n2) on two distinct nodes of a
\* well-formed tree exchanges their structural positions whatever their
\* placement (n2 a child of n1 on either side, n1 a child of n2, either one the
\* root, or apart): each has the other's former parent, side and children, an
\* adjacent pair points at each other in reversed roles, every former
\* neighbour points at the node now in that position, the root names the node
\* now at the top, and both nodes keep their own key and value.
C15_BaseNodeSwap ==
    [][last'.op = "nodeSwap" =>
          tree' = Exchanged(tree, ret'.node, ret'.node2)]_vars

\* nodeSwap was called with n1 the left child of the root n2: n1 is the root now
\* and n2 its left child, each with its own key
C15_Witness ==
    /\ last.op = "nodeSwap"
    /\ tree.root = ret.node
    /\ tree.left[ret.node] = ret.node2
    /\ tree.parent[ret.node2] = ret.node
    /\ tree.key[ret.node] < tree.key[ret.node2]
    /\ tree.right[ret.node] # NULL

\* root_ and the three link fields of every node
Links(T) ==
    <<T.root, T.parent, T.left, T.right>>

\* what is left of balance_ after its exchange between n1 and n2
BalanceExchanged(T, n1, n2) ==
    [a \in Addr |-> T.balance[Other(n1, n2, a)]]

\* C16, as stated: AVLTree::nodeSwap(n1, n2) produces for every pair of
\* distinct nodes, n2 being the left or the right child of n1 included, exactly
\* the parent, left and right links and the root that the base nodeSwap
\* produces, and in addition exchanges the two balance factors.
C16_AsBaseNodeSwap ==
    [][last'.op = "avlNodeSwap" =>
          /\ Links(tree') = Links(BinarySearchTree_nodeSwap(tree, ret'.node, ret'.node2))
          /\ tree'.balance = BalanceExchanged(tree, ret'.node, ret'.node2)]_vars

\* C16, amended: AVLTree::nodeSwap(n1, n2) exchanges the two balance factors
\* for every pair of distinct nodes and keeps every key and value. When n2 is
\* not a child of n1 its links and root are exactly those the base nodeSwap
\* produces. When n2 is the left child of n1 its links and root are those of
\* rotateRight(n1), when n2 is the right child of n1 those of rotateLeft(n1):
\* n2 takes the place of n1, n1 becomes the child of n2 on the other side and
\* takes over the inner subtree of n2, and each keeps its outer subtree.
C16_AvlNodeSwap ==
    [][last'.op = "avlNodeSwap" =>
          LET n1 == ret'.node
              n2 == ret'.node2
          IN  /\ tree'.balance = BalanceExchanged(tree, n1, n2)
              /\ tree'.key = tree.key /\ tree'.value = tree.value
              /\ tree'.live = tree.live
              /\ (tree.left[n1] # n2 /\ tree.right[n1] # n2) =>
                     Links(tree') = Links(BinarySearchTree_nodeSwap(tree, n1, n2))
              /\ tree.left[n1] = n2 => Links(tree') = Links(rotateRight(tree, n1))
              /\ tree.right[n1] = n2 => Links(tree') = Links(rotateLeft(tree, n1))]_vars

\* AVLTree::nodeSwap was called with n2 the left child of n1, n2 having a right
\* subtree and n1 a parent: n1 is the right child of n2 now, the subtree hangs
\* on the left of n1, and the keys are still in order
C16_Witness ==
    /\ last.op = "avlNodeSwap"
    /\ tree.right[ret.node2] = ret.node
    /\ tree.parent[ret.node] = ret.node2
    /\ tree.key[ret.node2] < tree.key[ret.node]
    /\ tree.left[ret.node] # NULL
    /\ tree.parent[tree.left[ret.node]] = ret.node
    /\ tree.left[ret.node2] # NULL

\* The links after a left rotation at n: the right child r of n is where n
\* was, n is the left child of r, the former left subtree b of r is the right
\* subtree of n, and no other link differs.
RotatedLeft(T, n) ==
    LET r == T.right[n]
        p == T.parent[n]
        b == T.left[r]
    IN  <<IF p = NULL THEN r ELSE T.root,
          [a \in Addr |-> IF a = r THEN p ELSE IF a = n THEN r
                          ELSE IF a = b THEN n ELSE T.parent[a]],
          [a \in Addr |-> IF a = r THEN n
                          ELSE IF a = p /\ T.left[p] = n THEN r ELSE T.left[a]],
          [a \in Addr |-> IF a = n THEN b
                          ELSE IF a = p /\ T.right[p] = n THEN r ELSE T.right[a]]>>

\* the mirror image, for a right rotation at n with left child l
RotatedRight(T, n) ==
    LET l == T.left[n]
        p == T.parent[n]
        b == T.right[l]
    IN  <<IF p = NULL THEN l ELSE T.root,
          [a \in Addr |-> IF a = l THEN p ELSE IF a = n THEN l
                          ELSE IF a = b THEN n ELSE T.parent[a]],
          [a \in Addr |-> IF a = n THEN b
                          ELSE IF a = p /\ T.left[p] = n THEN l ELSE T.left[a]],
          [a \in Addr |-> IF a = l THEN n
                          ELSE IF a = p /\ T.right[p] = n THEN l ELSE T.right[a]]>>

\* C17: rotateLeft(n) on a node n with right child r makes r take the position
\* of n (same parent and side, or the root), makes n the left child of r and the
\* former left subtree of r the right subtree of n with parent n, changes no
\* other link and keeps the in-order key sequence of the tree; rotateRight is
\* the mirror image.
C17_Rotation ==
    [][/\ last'.op = "rotateLeft" =>
              /\ Links(tree') = RotatedLeft(tree, ret'.node)
              /\ KeySeq(tree') = KeySeq(tree)
              /\ tree'.key = tree.key /\ tree'.value = tree.value
              /\ tree'.live = tree.live
       /\ last'.op = "rotateRight" =>
              /\ Links(tree') = RotatedRight(tree, ret'.node)
              /\ KeySeq(tree') = KeySeq(tree)
              /\ tree'.key = tree.key /\ tree'.value = tree.value
              /\ tree'.live = tree.live]_vars

\* rotateLeft was called on the root n, which had a left subtree and whose
\* right child r had two subtrees: r is the root, n on the left of r and the
\* former left subtree of r on the right of n
C17_Witness ==
    /\ last.op = "rotateLeft"
    /\ tree.parent[ret.node] = tree.root
    /\ tree.left[tree.root] = ret.node
    /\ tree.right[tree.root] # NULL
    /\ tree.left[ret.node] # NULL
    /\ tree.right[ret.node] # NULL
    /\ tree.parent[tree.right[ret.node]] = ret.node

\* C18, as stated: in the rebalance walk, after a rotation at a node the next
\* node processed is the parent of the new root of the rotated subtree (the
\* walk ends if there is none), and the new root itself is not processed
\* after the rotation.
C18_SkipsNewRoot ==
    \A i \in DOMAIN last.walk :
        last.walk[i].rot # "none" =>
            /\ IF last.walk[i].above = NULL THEN i = Len(last.walk)
               ELSE /\ i < Len(last.walk)
                    /\ last.walk[i + 1].node = last.walk[i].above
            /\ \A j \in DOMAIN last.walk : j > i => last.walk[j].node # last.walk[i].top

\* C18, amended: the walk always goes on at the parent the processed node has
\* after its step. After a rotation at a node that is the new root of the
\* rotated subtree: it is processed next, its balance is recomputed, lies in
\* [-1, 1] and causes no rotation, and the step after it is at its parent, the
\* parent the rotated node had before; the walk ends where there is no parent.
C18_WalkAfterRotation ==
    \A i \in DOMAIN last.walk :
        /\ last.walk[i].rot = "none" =>
               /\ last.walk[i].top = last.walk[i].node
               /\ IF last.walk[i].above = NULL THEN i = Len(last.walk)
                  ELSE /\ i < Len(last.walk)
                       /\ last.walk[i + 1].node = last.walk[i].above
        /\ last.walk[i].rot # "none" =>
               /\ last.walk[i].top # last.walk[i].node
               /\ i < Len(last.walk)
               /\ last.walk[i + 1].node = last.walk[i].top
               /\ last.walk[i + 1].balance \in -1..1
               /\ last.walk[i + 1].rot = "none"
               /\ last.walk[i + 1].above = last.walk[i].above

\* an insert rotated at a node below the root: the walk went on at the new
\* root of the rotated subtree and from there to the parent above it
C18_Witness ==
    /\ kind = "AVL" /\ last.op = "insert"
    /\ \E i \in DOMAIN last.walk :
           /\ last.walk[i].rot # "none"
           /\ last.walk[i].above # NULL
           /\ i + 2 <= Len(last.walk)
           /\ last.walk[i + 1].node = last.walk[i].top
           /\ last.walk[i + 2].node = last.walk[i].above

\* C19: when the walk finds a node with balance > 1 it rotates left at the
\* left child and then right at the node exactly when the balance factor of
\* the left child is negative, and rotates right at the node alone otherwise,
\* a left child of balance 0 (which removals produce) included; for balance
\* < -1 symmetrically with the right child and a positive balance factor; it
\* does not rotate at a balance in [-1, 1]. After a step that rotated, the
\* subtree in the place of the node has a balance in [-1, 1] at its root and at
\* both children of the root.
C19_RotationChoice ==
    \A i \in DOMAIN last.walk :
        LET s == last.walk[i]
        IN  /\ s.balance > 1 =>
                   /\ s.rot = "LR" <=> s.heavy < 0
                   /\ s.rot = "LL" <=> s.heavy >= 0
            /\ s.balance < -1 =>
                   /\ s.rot = "RL" <=> s.heavy > 0
                   /\ s.rot = "RR" <=> s.heavy <= 0
            /\ s.balance \in -1..1 => s.rot = "none"
            /\ s.rot # "none" =>
                   /\ s.stored \subseteq -1..1
                   /\ s.measured \subseteq -1..1

\* a remove left a node with balance 2 whose left child had balance 0: the
\* walk rotated right at the node alone
C19_Witness ==
    /\ kind = "AVL" /\ last.op = "remove"
    /\ \E i \in DOMAIN last.walk :
           /\ last.walk[i].balance = 2
           /\ last.walk[i].heavy = 0
           /\ last.walk[i].rot = "LL"
           /\ last.walk[i].measured \subseteq -1..1

\* C20: in BinarySearchTree::remove and in AVLTree::remove the node has at
\* most one child at the moment it is unlinked, for every present key and every
\* shape, the predecessor being the left child of the node included. The node
\* unlinked and freed is the node that held the removed key before the call;
\* its sole child, if it has one, takes exactly the slot the node occupied
\* (under the same parent on the same side, or as root), with its parent set
\* to the parent of the unlinked node; without a child the slot is empty.
C20_Unlink ==
    [][(last'.op = "remove" /\ last'.found) =>
          LET u == last'.unlink
          IN  /\ Holders(tree, last'.key) = {u.node}
              /\ tree'.live = tree.live \ {u.node}
              /\ Cardinality(u.kids) <= 1
              /\ u.side # "none"
              /\ IF u.kids = {} THEN u.slot = NULL
                 ELSE u.slot \in u.kids /\ u.kidParents = {u.parent}
              /\ kind = "BST" =>
                     /\ u.slot = IF u.side = "root" THEN tree'.root
                                 ELSE IF u.side = "left" THEN tree'.left[u.parent]
                                 ELSE tree'.right[u.parent]
                     /\ \A c \in u.kids : tree'.parent[c] = u.parent]_vars

\* an AVLTree removed a node with two children whose predecessor was its left
\* child: the node was unlinked below that predecessor, and its right subtree
\* took its slot
C20_Witness ==
    /\ kind = "AVL"
    /\ last.op = "remove" /\ last.found /\ last.two
    /\ last.unlink.parent # NULL
    /\ tree.key[last.unlink.parent] < last.key
    /\ last.unlink.side = "right"
    /\ \E c \in last.unlink.kids : tree.key[c] > last.key /\ last.unlink.slot = c

\* C21: for every node x of a well-formed tree predecessor(x) is the node with
\* the greatest key smaller than the key of x and successor(x) the node with
\* the smallest key greater than it; the predecessor of the minimum and the
\* successor of the maximum are nullptr, and so are predecessor(nullptr) and
\* successor(nullptr); successor(predecessor(x)) = x and
\* predecessor(successor(x)) = x where the inner result is a node; neither
\* call changes the tree.
C21_Neighbours ==
    [][/\ last'.op = "predecessor" =>
              LET x == ret'.node
                  p == ret'.node2
                  smaller == {n \in Nodes(tree) : tree.key[n] < tree.key[x]}
              IN  /\ tree' = tree
                  /\ x = NULL => p = NULL
                  /\ (x # NULL /\ smaller = {}) => p = NULL
                  /\ (x # NULL /\ smaller # {}) =>
                         /\ p \in smaller
                         /\ \A n \in smaller : tree.key[n] <= tree.key[p]
                         /\ successor(tree, p) = x
       /\ last'.op = "successor" =>
              LET x == ret'.node
                  s == ret'.node2
                  greater == {n \in Nodes(tree) : tree.key[n] > tree.key[x]}
              IN  /\ tree' = tree
                  /\ x = NULL => s = NULL
                  /\ (x # NULL /\ greater = {}) => s = NULL
                  /\ (x # NULL /\ greater # {}) =>
                         /\ s \in greater
                         /\ \A n \in greater : tree.key[n] >= tree.key[s]
                         /\ predecessor(tree, s) = x]_vars

\* predecessor was called on a node without a left child that is the left
\* child of its parent: the result is an ancestor further up
C21_Witness ==
    /\ last.op = "predecessor"
    /\ ret.node # NULL /\ ret.node2 # NULL
    /\ tree.left[ret.node] = NULL
    /\ tree.parent[ret.node] # ret.node2
    /\ tree.key[ret.node2] < tree.key[ret.node]

\* the proper ancestors of n
RECURSIVE Ancestors(_, _)
Ancestors(T, n) ==
    IF T.parent[n] = NULL THEN {} ELSE {T.parent[n]} \cup Ancestors(T, T.parent[n])

\* The node a new key k hangs under: the node with the next greater key if it
\* has no left child, else the node with the next smaller key.
LeafParent(T, k) ==
    {p \in Nodes(T) :
        \/ /\ T.key[p] > k /\ T.left[p] = NULL
           /\ \A n \in Nodes(T) : T.key[n] > k => T.key[n] >= T.key[p]
        \/ /\ T.key[p] < k /\ T.right[p] = NULL
           /\ \A n \in Nodes(T) : T.key[n] < k => T.key[n] <= T.key[p]}

\* The nodes above the place where remove(k) takes a node out of T: the
\* ancestors of the holder of k, or, when the holder has two children, the
\* node with the next smaller key, which takes the holder's place, and what is
\* above that node except the holder.
RemovePath(T, k) ==
    LET n == CHOOSE h \in Holders(T, k) : TRUE
        pred == CHOOSE p \in Nodes(T) :
                    /\ T.key[p] < k
                    /\ \A m \in Nodes(T) : T.key[m] < k => T.key[m] <= T.key[p]
    IN  IF T.left[n] # NULL /\ T.right[n] # NULL
        THEN (Ancestors(T, pred) \ {n}) \cup {pred}
        ELSE Ancestors(T, n)

\* the nodes the walk processed
WalkNodes(walk) ==
    {walk[i].node : i \in DOMAIN walk}

\* C22: every AVLTree::insert and AVLTree::remove ends. Its rebalance walk
\* starts at the parent of the inserted node (insert of a new key) or at the
\* parent of the node that was unlinked (remove; there is no walk when it has
\* none, and none when nothing was inserted or removed), processes every node
\* on the path from there to the root, takes at most two steps per node of
\* that path, and its last step is at the node that is the root when the call
\* returns, also when rotations changed the root on the way.
C22_WalkEnds ==
    [][(kind = "AVL" /\ last'.op \in {"insert", "remove"}) =>
          LET walk == last'.walk
              path == IF last'.op = "insert"
                      THEN (IF last'.found \/ tree.root = NULL THEN {}
                            ELSE LeafParent(tree, last'.key)
                                   \cup UNION {Ancestors(tree, p) : p \in LeafParent(tree, last'.key)})
                      ELSE (IF last'.found THEN RemovePath(tree, last'.key) ELSE {})
          IN  /\ path = {} <=> walk = <<>>
              /\ path \subseteq WalkNodes(walk)
              /\ Len(walk) <= 2 * Cardinality(path)
              /\ walk # <<>> =>
                     /\ walk[Len(walk)].node = tree'.root
                     /\ walk[Len(walk)].above = NULL
                     /\ last'.op = "insert" => LeafParent(tree, last'.key) = {walk[1].node}
                     /\ last'.op = "remove" => walk[1].node = last'.unlink.parent
              /\ (last'.op = "remove" /\ last'.found /\ walk = <<>>) =>
                     last'.unlink.parent = NULL]_vars

\* a walk rotated at the root: it took a further step, at the new root, and
\* ended there
C22_Witness ==
    /\ kind = "AVL" /\ last.op \in {"insert", "remove"}
    /\ Len(last.walk) >= 3
    /\ last.walk[Len(last.walk) - 1].rot # "none"
    /\ last.walk[Len(last.walk) - 1].above = NULL
    /\ last.walk[Len(last.walk)].node = tree.root
    /\ last.walk[Len(last.walk)].node # last.walk[Len(last.walk) - 1].node

\* C23: an empty BinarySearchTree and an empty AVLTree that are given the same
\* insert, remove and clear calls in the same order hold after every call the
\* same keys with the same value for each: the same in-order sequence of
\* pairs, and the same results of find, operator[] and empty(). They may
\* differ in shape only.
C23_SameContent ==
    /\ PairSeq(tree) = PairSeq(twin)
    /\ {<<tree.key[n], tree.value[n]>> : n \in tree.live}
          = {<<twin.key[n], twin.value[n]>> : n \in twin.live}
    /\ empty(tree) = empty(twin)
    /\ \A k \in 1..MaxKey :
           /\ (find(tree, k) = NULL) = (find(twin, k) = NULL)
           /\ find(tree, k) # NULL =>
                  /\ tree.key[find(tree, k)] = twin.key[find(twin, k)]
                  /\ tree.value[find(tree, k)] = twin.value[find(twin, k)]
           /\ subscript(tree, k).err = subscript(twin, k).err
           /\ subscript(tree, k).value = subscript(twin, k).value

\* both trees were given a remove of a node with two children, and the
\* AVLTree is less high than the BinarySearchTree with the same pairs
C23_Witness ==
    /\ last.op = "remove" /\ last.found /\ last.two
    /\ Height(tree, tree.root) < Height(twin, twin.root)
    /\ PairSeq(tree) = PairSeq(twin)
    /\ \E i \in DOMAIN PairSeq(tree) : PairSeq(tree)[i][2] = "b"

\* the steps of the walk that rotated
RotationSteps(walk) ==
    {i \in DOMAIN walk : walk[i].rot # "none"}

\* C24: during one AVLTree::insert of a new key into a tree that satisfies the
\* AVL balance invariant the walk rotates at no more than one of its nodes, a
\* single rotation or a double one (so rotateLeft and rotateRight are called
\* at most twice in all), and every node it processes after that rotation has
\* a recomputed balance in [-1, 1].
C24_OneRotationSite ==
    (kind = "AVL" /\ last.op = "insert" /\ ~last.found) =>
        /\ Cardinality(RotationSteps(last.walk)) <= 1
        /\ \A i \in RotationSteps(last.walk) :
               /\ last.walk[i].rot \in {"LL", "RR", "LR", "RL"}
               /\ last.walk[i].balance \in {-2, 2}
               /\ \A j \in DOMAIN last.walk : j > i => last.walk[j].balance \in -1..1

\* an insert made a double rotation at a node below the root, and the walk
\* went on over two more nodes without rotating
C24_Witness ==
    /\ kind = "AVL" /\ last.op = "insert" /\ ~last.found
    /\ \E i \in RotationSteps(last.walk) :
           /\ last.walk[i].rot \in {"LR", "RL"}
           /\ last.walk[i].above # NULL
           /\ i + 2 <= Len(last.walk)
           /\ last.walk[i + 2].rot = "none"

\* the leaves of the tree, and the number of nodes on the path from the root
\* to each
Leaves(T) ==
    {n \in Nodes(T) : T.left[n] = NULL /\ T.right[n] = NULL}

LeafDepths(T) ==
    {Cardinality(Ancestors(T, n)) + 1 : n \in Leaves(T)}

\* C25: equalPaths(root) is true if and only if every leaf of the binary tree
\* under root is at the same depth; it is true for the empty tree and for a
\* tree of a single node, and it does not change the tree.
C25_EqualPaths ==
    [][last'.op = "equalPaths" =>
          /\ tree' = tree
          /\ ret'.flag <=> Cardinality(LeafDepths(tree)) <= 1
          /\ Cardinality(Nodes(tree)) <= 1 => ret'.flag]_vars

\* equalPaths was true for a tree with two leaves, both at depth 3, below
\* nodes with a single child
C25_Witness ==
    /\ last.op = "equalPaths"
    /\ ret.flag
    /\ Cardinality(Leaves(tree)) = 2
    /\ LeafDepths(tree) = {3}
    /\ \E n \in Nodes(tree) : tree.left[n] = NULL /\ tree.right[n] # NULL

=============================================================================
